---- MODULE Spec2Model ----
(***************************************************************************)
(* hdls: a language server for the nand2tetris HDL (src/main.go, the       *)
(* second program of the file, lines 232-534).  The model covers the chip  *)
(* catalog (implementedChips), the diagnostic walk of publishDiagnostics,  *)
(* the open / change / definition handlers, getByteOffset and the path     *)
(* helpers.  Strings are sequences of one-character strings, so that byte  *)
(* ranges, prefixes, suffixes and extensions are computed as the code      *)
(* computes them.  A path is a sequence of components; a component is a    *)
(* string in that sense.                                                   *)
(***************************************************************************)
EXTENDS Integers, Sequences, FiniteSets, TLC

VARIABLES disk, dirs, implementedChips, openFiles, last, opened

vars == <<disk, dirs, implementedChips, openFiles, last, opened>>

\* ------------------------------------------------------------------------
\* Bounds of the checked instances.
\* ------------------------------------------------------------------------
MaxLine == 6
MaxChar == 8
MaxChanges == 1
MaxEntries == 2

\* ------------------------------------------------------------------------
\* Strings.
\* ------------------------------------------------------------------------
NIL == 0

Range(s) == {s[i] : i \in 1..Len(s)}

\* strings.HasPrefix
HasPrefix(s, p) ==
  /\ Len(p) <= Len(s)
  /\ SubSeq(s, 1, Len(p)) = p

\* strings.HasSuffix
HasSuffix(s, p) ==
  /\ Len(p) <= Len(s)
  /\ SubSeq(s, Len(s) - Len(p) + 1, Len(s)) = p

\* strings.TrimPrefix / strings.TrimSuffix
TrimPrefix(s, p) == IF HasPrefix(s, p) THEN SubSeq(s, Len(p) + 1, Len(s)) ELSE s

TrimSuffix(s, p) == IF HasSuffix(s, p) THEN SubSeq(s, 1, Len(s) - Len(p)) ELSE s

IsSpace(c) == c \in {" ", "\n", "\t", "\r"}

RECURSIVE TrimLeft(_)
TrimLeft(s) == IF s # <<>> /\ IsSpace(Head(s)) THEN TrimLeft(Tail(s)) ELSE s

RECURSIVE TrimRight(_)
TrimRight(s) ==
  IF s # <<>> /\ IsSpace(s[Len(s)]) THEN TrimRight(SubSeq(s, 1, Len(s) - 1)) ELSE s

\* strings.TrimSpace
TrimSpace(s) == TrimRight(TrimLeft(s))

\* strings.Split(text, "\n"): the lines of the text, one more than its newlines.
RECURSIVE SplitFrom(_, _, _)
SplitFrom(text, i, cur) ==
  IF i > Len(text) THEN <<cur>>
  ELSE IF text[i] = "\n" THEN <<cur>> \o SplitFrom(text, i + 1, <<>>)
  ELSE SplitFrom(text, i + 1, Append(cur, text[i]))

SplitLines(text) == SplitFrom(text, 1, <<>>)

\* source[a:b] for byte offsets a <= b (0-based, b exclusive).
Slice(text, a, b) == SubSeq(text, a + 1, b)

\* The byte order of the characters that occur in file and directory names.
CharOrder ==
  <<".", "1", "2", "B", "C", "F", "I", "X", "a", "b", "d", "h", "i", "l", "n", "o", "p",
    "s", "t", "u">>

Ord(c) == CHOOSE i \in 1..Len(CharOrder) : CharOrder[i] = c

\* Go's string comparison s < t, as os.ReadDir sorts directory entries.
RECURSIVE StrLess(_, _)
StrLess(s, t) ==
  IF t = <<>> THEN FALSE
  ELSE IF s = <<>> THEN TRUE
  ELSE IF Head(s) = Head(t) THEN StrLess(Tail(s), Tail(t))
  ELSE Ord(Head(s)) < Ord(Head(t))

\* ------------------------------------------------------------------------
\* The syntax tree handed back by parser.Parse.  A tree is a sequence of
\* nodes, node 1 the root; a node names its parent (0 for the root) and its
\* children in source order.  Rows and columns are the parser's points:
\* the row is the number of newlines before the byte, the column the bytes
\* since the last newline.
\* ------------------------------------------------------------------------
RECURSIVE PointAt(_, _, _, _, _)
PointAt(text, off, i, row, col) ==
  IF i > off THEN <<row, col>>
  ELSE IF text[i] = "\n" THEN PointAt(text, off, i + 1, row + 1, 0)
  ELSE PointAt(text, off, i + 1, row, col + 1)

MkNode(text, r) ==
  [kind |-> r[1], named |-> r[2], field |-> r[3], start |-> r[4], end |-> r[5],
   parent |-> r[6], children |-> r[7],
   sp |-> PointAt(text, r[4], 1, 0, 0), ep |-> PointAt(text, r[5], 1, 0, 0)]

RECURSIVE MkNodes(_, _, _)
MkNodes(text, rows, nodes) ==
  IF Len(nodes) = Len(rows) THEN nodes
  ELSE MkNodes(text, rows, Append(nodes, MkNode(text, rows[Len(nodes) + 1])))

MkTree(text, rows) == MkNodes(text, rows, <<>>)

\* 'CHIP X{\nPARTS:\nX(a=b);F(a=b);\nB(a=b);F(a=b);\n}'
SrcXorText ==
  <<"C", "H", "I", "P", " ", "X", "{", "\n", "P", "A", "R", "T", "S", ":", "\n", "X", "(", "a", "=", "b", ")", ";", "F", "(", "a", "=", "b", ")", ";", "\n", "B", "(", "a", "=", "b", ")", ";", "F", "(", "a", "=", "b", ")", ";", "\n", "}">>
SrcXorRows ==
  <<
     <<"source_file", TRUE, "", 0, 46, 0, <<2>>>>,
     <<"chip_definition", TRUE, "", 0, 46, 1, <<3, 4, 5, 6, 44>>>>,
     <<"CHIP", FALSE, "", 0, 4, 2, <<>>>>,
     <<"identifier", TRUE, "name", 5, 6, 2, <<>>>>,
     <<"{", FALSE, "", 6, 7, 2, <<>>>>,
     <<"parts_section", TRUE, "", 8, 44, 2, <<7, 8, 17, 26, 35>>>>,
     <<"PARTS:", FALSE, "", 8, 14, 6, <<>>>>,
     <<"part", TRUE, "", 15, 22, 6, <<9, 10, 11, 15, 16>>>>,
     <<"identifier", TRUE, "chip_name", 15, 16, 8, <<>>>>,
     <<"(", FALSE, "", 16, 17, 8, <<>>>>,
     <<"connection", TRUE, "", 17, 20, 8, <<12, 13, 14>>>>,
     <<"identifier", TRUE, "", 17, 18, 11, <<>>>>,
     <<"=", FALSE, "", 18, 19, 11, <<>>>>,
     <<"identifier", TRUE, "", 19, 20, 11, <<>>>>,
     <<")", FALSE, "", 20, 21, 8, <<>>>>,
     <<";", FALSE, "", 21, 22, 8, <<>>>>,
     <<"part", TRUE, "", 22, 29, 6, <<18, 19, 20, 24, 25>>>>,
     <<"identifier", TRUE, "chip_name", 22, 23, 17, <<>>>>,
     <<"(", FALSE, "", 23, 24, 17, <<>>>>,
     <<"connection", TRUE, "", 24, 27, 17, <<21, 22, 23>>>>,
     <<"identifier", TRUE, "", 24, 25, 20, <<>>>>,
     <<"=", FALSE, "", 25, 26, 20, <<>>>>,
     <<"identifier", TRUE, "", 26, 27, 20, <<>>>>,
     <<")", FALSE, "", 27, 28, 17, <<>>>>,
     <<";", FALSE, "", 28, 29, 17, <<>>>>,
     <<"part", TRUE, "", 30, 37, 6, <<27, 28, 29, 33, 34>>>>,
     <<"identifier", TRUE, "chip_name", 30, 31, 26, <<>>>>,
     <<"(", FALSE, "", 31, 32, 26, <<>>>>,
     <<"connection", TRUE, "", 32, 35, 26, <<30, 31, 32>>>>,
     <<"identifier", TRUE, "", 32, 33, 29, <<>>>>,
     <<"=", FALSE, "", 33, 34, 29, <<>>>>,
     <<"identifier", TRUE, "", 34, 35, 29, <<>>>>,
     <<")", FALSE, "", 35, 36, 26, <<>>>>,
     <<";", FALSE, "", 36, 37, 26, <<>>>>,
     <<"part", TRUE, "", 37, 44, 6, <<36, 37, 38, 42, 43>>>>,
     <<"identifier", TRUE, "chip_name", 37, 38, 35, <<>>>>,
     <<"(", FALSE, "", 38, 39, 35, <<>>>>,
     <<"connection", TRUE, "", 39, 42, 35, <<39, 40, 41>>>>,
     <<"identifier", TRUE, "", 39, 40, 38, <<>>>>,
     <<"=", FALSE, "", 40, 41, 38, <<>>>>,
     <<"identifier", TRUE, "", 41, 42, 38, <<>>>>,
     <<")", FALSE, "", 42, 43, 35, <<>>>>,
     <<";", FALSE, "", 43, 44, 35, <<>>>>,
     <<"}", FALSE, "", 45, 46, 2, <<>>>>
  >>
SrcXor ==
  [text |-> SrcXorText, tree |-> MkTree(SrcXorText, SrcXorRows)]

\* '//c\nCHIP F{\nPARTS:\nB(a=b);\n}'
SrcFooText ==
  <<"/", "/", "c", "\n", "C", "H", "I", "P", " ", "F", "{", "\n", "P", "A", "R", "T", "S", ":", "\n", "B", "(", "a", "=", "b", ")", ";", "\n", "}">>
SrcFooRows ==
  <<
     <<"source_file", TRUE, "", 0, 28, 0, <<2, 4>>>>,
     <<"comment", TRUE, "", 0, 3, 1, <<3>>>>,
     <<"//c", FALSE, "", 0, 3, 2, <<>>>>,
     <<"chip_definition", TRUE, "", 4, 28, 1, <<5, 6, 7, 8, 19>>>>,
     <<"CHIP", FALSE, "", 4, 8, 4, <<>>>>,
     <<"identifier", TRUE, "name", 9, 10, 4, <<>>>>,
     <<"{", FALSE, "", 10, 11, 4, <<>>>>,
     <<"parts_section", TRUE, "", 12, 26, 4, <<9, 10>>>>,
     <<"PARTS:", FALSE, "", 12, 18, 8, <<>>>>,
     <<"part", TRUE, "", 19, 26, 8, <<11, 12, 13, 17, 18>>>>,
     <<"identifier", TRUE, "chip_name", 19, 20, 10, <<>>>>,
     <<"(", FALSE, "", 20, 21, 10, <<>>>>,
     <<"connection", TRUE, "", 21, 24, 10, <<14, 15, 16>>>>,
     <<"identifier", TRUE, "", 21, 22, 13, <<>>>>,
     <<"=", FALSE, "", 22, 23, 13, <<>>>>,
     <<"identifier", TRUE, "", 23, 24, 13, <<>>>>,
     <<")", FALSE, "", 24, 25, 10, <<>>>>,
     <<";", FALSE, "", 25, 26, 10, <<>>>>,
     <<"}", FALSE, "", 27, 28, 4, <<>>>>
  >>
SrcFoo ==
  [text |-> SrcFooText, tree |-> MkTree(SrcFooText, SrcFooRows)]

\* 'CHIP F{}\nCHIP Fa{}'
SrcFooLibText ==
  <<"C", "H", "I", "P", " ", "F", "{", "}", "\n", "C", "H", "I", "P", " ", "F", "a", "{", "}">>
SrcFooLibRows ==
  <<
     <<"source_file", TRUE, "", 0, 18, 0, <<2, 7>>>>,
     <<"chip_definition", TRUE, "", 0, 8, 1, <<3, 4, 5, 6>>>>,
     <<"CHIP", FALSE, "", 0, 4, 2, <<>>>>,
     <<"identifier", TRUE, "name", 5, 6, 2, <<>>>>,
     <<"{", FALSE, "", 6, 7, 2, <<>>>>,
     <<"}", FALSE, "", 7, 8, 2, <<>>>>,
     <<"chip_definition", TRUE, "", 9, 18, 1, <<8, 9, 10, 11>>>>,
     <<"CHIP", FALSE, "", 9, 13, 7, <<>>>>,
     <<"identifier", TRUE, "name", 14, 16, 7, <<>>>>,
     <<"{", FALSE, "", 16, 17, 7, <<>>>>,
     <<"}", FALSE, "", 17, 18, 7, <<>>>>
  >>
SrcFooLib ==
  [text |-> SrcFooLibText, tree |-> MkTree(SrcFooLibText, SrcFooLibRows)]

\* 'CHIP B{\nPARTS:\nF(a=b)\n}'
SrcBarText ==
  <<"C", "H", "I", "P", " ", "B", "{", "\n", "P", "A", "R", "T", "S", ":", "\n", "F", "(", "a", "=", "b", ")", "\n", "}">>
SrcBarRows ==
  <<
     <<"source_file", TRUE, "", 0, 23, 0, <<2>>>>,
     <<"chip_definition", TRUE, "", 0, 23, 1, <<3, 4, 5, 6, 17>>>>,
     <<"CHIP", FALSE, "", 0, 4, 2, <<>>>>,
     <<"identifier", TRUE, "name", 5, 6, 2, <<>>>>,
     <<"{", FALSE, "", 6, 7, 2, <<>>>>,
     <<"parts_section", TRUE, "", 8, 21, 2, <<7, 8>>>>,
     <<"PARTS:", FALSE, "", 8, 14, 6, <<>>>>,
     <<"part", TRUE, "", 15, 21, 6, <<9, 10, 11, 15>>>>,
     <<"identifier", TRUE, "chip_name", 15, 16, 8, <<>>>>,
     <<"(", FALSE, "", 16, 17, 8, <<>>>>,
     <<"connection", TRUE, "", 17, 20, 8, <<12, 13, 14>>>>,
     <<"identifier", TRUE, "", 17, 18, 11, <<>>>>,
     <<"=", FALSE, "", 18, 19, 11, <<>>>>,
     <<"identifier", TRUE, "", 19, 20, 11, <<>>>>,
     <<"ERROR", TRUE, "", 20, 21, 8, <<16>>>>,
     <<")", FALSE, "", 20, 21, 15, <<>>>>,
     <<"}", FALSE, "", 22, 23, 2, <<>>>>
  >>
SrcBar ==
  [text |-> SrcBarText, tree |-> MkTree(SrcBarText, SrcBarRows)]

\* 'CHIP B{\nPARTS:\nF(a=b)\nB(a=b);\n}'
SrcMissingSemiText ==
  <<"C", "H", "I", "P", " ", "B", "{", "\n", "P", "A", "R", "T", "S", ":", "\n", "F", "(", "a", "=", "b", ")", "\n", "B", "(", "a", "=", "b", ")", ";", "\n", "}">>
SrcMissingSemiRows ==
  <<
     <<"source_file", TRUE, "", 0, 31, 0, <<2>>>>,
     <<"chip_definition", TRUE, "", 0, 31, 1, <<3, 4, 5, 6, 25>>>>,
     <<"CHIP", FALSE, "", 0, 4, 2, <<>>>>,
     <<"identifier", TRUE, "name", 5, 6, 2, <<>>>>,
     <<"{", FALSE, "", 6, 7, 2, <<>>>>,
     <<"parts_section", TRUE, "", 8, 29, 2, <<7, 8>>>>,
     <<"PARTS:", FALSE, "", 8, 14, 6, <<>>>>,
     <<"part", TRUE, "", 15, 29, 6, <<9, 10, 11, 15, 18, 19, 23, 24>>>>,
     <<"identifier", TRUE, "chip_name", 15, 16, 8, <<>>>>,
     <<"(", FALSE, "", 16, 17, 8, <<>>>>,
     <<"connection", TRUE, "", 17, 20, 8, <<12, 13, 14>>>>,
     <<"identifier", TRUE, "", 17, 18, 11, <<>>>>,
     <<"=", FALSE, "", 18, 19, 11, <<>>>>,
     <<"identifier", TRUE, "", 19, 20, 11, <<>>>>,
     <<"ERROR", TRUE, "", 20, 23, 8, <<16, 17>>>>,
     <<")", FALSE, "", 20, 21, 15, <<>>>>,
     <<"identifier", TRUE, "", 22, 23, 15, <<>>>>,
     <<"(", FALSE, "", 23, 24, 8, <<>>>>,
     <<"connection", TRUE, "", 24, 27, 8, <<20, 21, 22>>>>,
     <<"identifier", TRUE, "", 24, 25, 19, <<>>>>,
     <<"=", FALSE, "", 25, 26, 19, <<>>>>,
     <<"identifier", TRUE, "", 26, 27, 19, <<>>>>,
     <<")", FALSE, "", 27, 28, 8, <<>>>>,
     <<";", FALSE, "", 28, 29, 8, <<>>>>,
     <<"}", FALSE, "", 30, 31, 2, <<>>>>
  >>
SrcMissingSemi ==
  [text |-> SrcMissingSemiText, tree |-> MkTree(SrcMissingSemiText, SrcMissingSemiRows)]

\* 'CHIP X{\nPARTS:\nF(a=))\n}'
SrcTwoErrorsText ==
  <<"C", "H", "I", "P", " ", "X", "{", "\n", "P", "A", "R", "T", "S", ":", "\n", "F", "(", "a", "=", ")", ")", "\n", "}">>
SrcTwoErrorsRows ==
  <<
     <<"source_file", TRUE, "", 0, 23, 0, <<2>>>>,
     <<"chip_definition", TRUE, "", 0, 23, 1, <<3, 4, 5, 6, 17>>>>,
     <<"CHIP", FALSE, "", 0, 4, 2, <<>>>>,
     <<"identifier", TRUE, "name", 5, 6, 2, <<>>>>,
     <<"{", FALSE, "", 6, 7, 2, <<>>>>,
     <<"parts_section", TRUE, "", 8, 21, 2, <<7, 8>>>>,
     <<"PARTS:", FALSE, "", 8, 14, 6, <<>>>>,
     <<"part", TRUE, "", 15, 21, 6, <<9, 10, 11, 14>>>>,
     <<"identifier", TRUE, "chip_name", 15, 16, 8, <<>>>>,
     <<"(", FALSE, "", 16, 17, 8, <<>>>>,
     <<"ERROR", TRUE, "", 17, 19, 8, <<12, 13>>>>,
     <<"identifier", TRUE, "", 17, 18, 11, <<>>>>,
     <<"=", FALSE, "", 18, 19, 11, <<>>>>,
     <<"ERROR", TRUE, "", 19, 21, 8, <<15, 16>>>>,
     <<")", FALSE, "", 19, 20, 14, <<>>>>,
     <<")", FALSE, "", 20, 21, 14, <<>>>>,
     <<"}", FALSE, "", 22, 23, 2, <<>>>>
  >>
SrcTwoErrors ==
  [text |-> SrcTwoErrorsText, tree |-> MkTree(SrcTwoErrorsText, SrcTwoErrorsRows)]

\* 'CHIP F{}\nCHIP {\nPARTS:\n(a=b);\nF(a=b);\n}'
SrcNoNameText ==
  <<"C", "H", "I", "P", " ", "F", "{", "}", "\n", "C", "H", "I", "P", " ", "{", "\n", "P", "A", "R", "T", "S", ":", "\n", "(", "a", "=", "b", ")", ";", "\n", "F", "(", "a", "=", "b", ")", ";", "\n", "}">>
SrcNoNameRows ==
  <<
     <<"source_file", TRUE, "", 0, 39, 0, <<2, 7>>>>,
     <<"chip_definition", TRUE, "", 0, 8, 1, <<3, 4, 5, 6>>>>,
     <<"CHIP", FALSE, "", 0, 4, 2, <<>>>>,
     <<"identifier", TRUE, "name", 5, 6, 2, <<>>>>,
     <<"{", FALSE, "", 6, 7, 2, <<>>>>,
     <<"}", FALSE, "", 7, 8, 2, <<>>>>,
     <<"chip_definition", TRUE, "", 9, 39, 1, <<8, 9, 10, 29>>>>,
     <<"CHIP", FALSE, "", 9, 13, 7, <<>>>>,
     <<"{", FALSE, "", 14, 15, 7, <<>>>>,
     <<"parts_section", TRUE, "", 16, 37, 7, <<11, 12, 20>>>>,
     <<"PARTS:", FALSE, "", 16, 22, 10, <<>>>>,
     <<"part", TRUE, "", 23, 29, 10, <<13, 14, 18, 19>>>>,
     <<"(", FALSE, "", 23, 24, 12, <<>>>>,
     <<"connection", TRUE, "", 24, 27, 12, <<15, 16, 17>>>>,
     <<"identifier", TRUE, "", 24, 25, 14, <<>>>>,
     <<"=", FALSE, "", 25, 26, 14, <<>>>>,
     <<"identifier", TRUE, "", 26, 27, 14, <<>>>>,
     <<")", FALSE, "", 27, 28, 12, <<>>>>,
     <<";", FALSE, "", 28, 29, 12, <<>>>>,
     <<"part", TRUE, "", 30, 37, 10, <<21, 22, 23, 27, 28>>>>,
     <<"identifier", TRUE, "chip_name", 30, 31, 20, <<>>>>,
     <<"(", FALSE, "", 31, 32, 20, <<>>>>,
     <<"connection", TRUE, "", 32, 35, 20, <<24, 25, 26>>>>,
     <<"identifier", TRUE, "", 32, 33, 23, <<>>>>,
     <<"=", FALSE, "", 33, 34, 23, <<>>>>,
     <<"identifier", TRUE, "", 34, 35, 23, <<>>>>,
     <<")", FALSE, "", 35, 36, 20, <<>>>>,
     <<";", FALSE, "", 36, 37, 20, <<>>>>,
     <<"}", FALSE, "", 38, 39, 7, <<>>>>
  >>
SrcNoName ==
  [text |-> SrcNoNameText, tree |-> MkTree(SrcNoNameText, SrcNoNameRows)]

\* ''
SrcEmptyText ==
  <<>>
SrcEmptyRows ==
  <<
     <<"source_file", TRUE, "", 0, 0, 0, <<>>>>
  >>
SrcEmpty ==
  [text |-> SrcEmptyText, tree |-> MkTree(SrcEmptyText, SrcEmptyRows)]

\* 'CHIP {\nPARTS:\nF(a=b);\n}\nCHIP F{}'
SrcLateNameText ==
  <<"C", "H", "I", "P", " ", "{", "\n", "P", "A", "R", "T", "S", ":", "\n", "F", "(", "a", "=", "b", ")", ";", "\n", "}", "\n", "C", "H", "I", "P", " ", "F", "{", "}">>
SrcLateNameRows ==
  <<
     <<"source_file", TRUE, "", 0, 32, 0, <<2, 17>>>>,
     <<"chip_definition", TRUE, "", 0, 23, 1, <<3, 4, 5, 16>>>>,
     <<"CHIP", FALSE, "", 0, 4, 2, <<>>>>,
     <<"{", FALSE, "", 5, 6, 2, <<>>>>,
     <<"parts_section", TRUE, "", 7, 21, 2, <<6, 7>>>>,
     <<"PARTS:", FALSE, "", 7, 13, 5, <<>>>>,
     <<"part", TRUE, "", 14, 21, 5, <<8, 9, 10, 14, 15>>>>,
     <<"identifier", TRUE, "chip_name", 14, 15, 7, <<>>>>,
     <<"(", FALSE, "", 15, 16, 7, <<>>>>,
     <<"connection", TRUE, "", 16, 19, 7, <<11, 12, 13>>>>,
     <<"identifier", TRUE, "", 16, 17, 10, <<>>>>,
     <<"=", FALSE, "", 17, 18, 10, <<>>>>,
     <<"identifier", TRUE, "", 18, 19, 10, <<>>>>,
     <<")", FALSE, "", 19, 20, 7, <<>>>>,
     <<";", FALSE, "", 20, 21, 7, <<>>>>,
     <<"}", FALSE, "", 22, 23, 2, <<>>>>,
     <<"chip_definition", TRUE, "", 24, 32, 1, <<18, 19, 20, 21>>>>,
     <<"CHIP", FALSE, "", 24, 28, 17, <<>>>>,
     <<"identifier", TRUE, "name", 29, 30, 17, <<>>>>,
     <<"{", FALSE, "", 30, 31, 17, <<>>>>,
     <<"}", FALSE, "", 31, 32, 17, <<>>>>
  >>
SrcLateName ==
  [text |-> SrcLateNameText, tree |-> MkTree(SrcLateNameText, SrcLateNameRows)]

\* The sources of the model, each with the tree the parser returns for it.
Sources ==
  <<SrcXor, SrcFoo, SrcFooLib, SrcBar, SrcMissingSemi, SrcTwoErrors, SrcNoName, SrcEmpty,
    SrcLateName>>

Texts == {Sources[i].text : i \in 1..Len(Sources)}

SourceOf(text) == CHOOSE i \in 1..Len(Sources) : Sources[i].text = text

\* parser.Parse(source, nil)
Parse(text) == Sources[SourceOf(text)].tree

\* ------------------------------------------------------------------------
\* Node accessors of the tree-sitter binding.
\* ------------------------------------------------------------------------
\* Node.ChildByFieldName: the first child carrying the field, or NIL.
ChildByFieldName(tree, n, f) ==
  LET kids == tree[n].children
      hits == {i \in 1..Len(kids) : tree[kids[i]].field = f}
  IN IF hits = {} THEN NIL
     ELSE kids[CHOOSE i \in hits : \A j \in hits : i <= j]

\* Node.Child(i), i counted from 0: NIL when the node has no such child.
Child(tree, n, i) ==
  IF i < Len(tree[n].children) THEN tree[n].children[i + 1] ELSE NIL

\* Node.NamedChild(0..NamedChildCount-1), in order.
NamedChildren(tree, n) ==
  SelectSeq(tree[n].children, LAMBDA c : tree[c].named)

\* Node.IsError
IsError(tree, n) == tree[n].kind = "ERROR"

\* source[n.StartByte():n.EndByte()]
NodeText(tree, text, n) == Slice(text, tree[n].start, tree[n].end)

\* ------------------------------------------------------------------------
\* Diagnostics.
\* ------------------------------------------------------------------------
DiagnosticSeverityError == 1

\* fmt.Sprintf of the three messages, kept as the pieces of the format.
MsgSelf(chipName) == <<"Cannot use chip ", chipName, " to implement itself">>

MsgUndefined(chipName) == <<"Undefined chip name: ", chipName>>

MsgExpectedSemi == <<"Expected \";\"">>

\* The range newDiagnostic reads off a node.
NodeRange(tree, n) ==
  [start |-> [line |-> tree[n].sp[1], character |-> tree[n].sp[2]],
   end   |-> [line |-> tree[n].ep[1], character |-> tree[n].ep[2]]]

\* newDiagnostic(n, msg); the caller has checked n # NIL.
newDiagnostic(tree, n, msg) ==
  [range |-> NodeRange(tree, n), severity |-> DiagnosticSeverityError, message |-> msg]

\* ------------------------------------------------------------------------
\* publishDiagnostics.walk.  The walk state st carries implementingChipName
\* (name), the diagnostics slice (diags), the nodes visited so far in visit
\* order (visited) and whether a nil node was dereferenced (panic).
\* ------------------------------------------------------------------------
WalkStart == [name |-> <<>>, diags |-> <<>>, visited |-> <<>>, panic |-> FALSE]

\* A slip that clears the current name at a chip definition without a name.
VisitChipDefinitionReset(tree, text, n, st) ==
  LET name == ChildByFieldName(tree, n, "name")
  IN [st EXCEPT !.name = IF name # NIL THEN NodeText(tree, text, name) ELSE <<>>]

\* case nodeKindChipDefinition
VisitChipDefinition(tree, text, n, st) ==
  LET name == ChildByFieldName(tree, n, "name")
  IN IF name # NIL THEN [st EXCEPT !.name = NodeText(tree, text, name)] ELSE st

\* A slip that reports an undefined chip only when the part is no self-reference.
PartNameDiagsElseIf(tree, text, chips, n, st) ==
  LET name == ChildByFieldName(tree, n, "chip_name")
      chipName == NodeText(tree, text, name)
  IN IF name = NIL THEN st
     ELSE IF chipName = st.name
       THEN [st EXCEPT !.diags = Append(@, newDiagnostic(tree, name, MsgSelf(chipName)))]
     ELSE IF chipName \notin chips
       THEN [st EXCEPT !.diags = Append(@, newDiagnostic(tree, name, MsgUndefined(chipName)))]
     ELSE st

\* A slip that checks self-reference only for chips found in the catalog.
PartNameDiagsKnownOnly(tree, text, chips, n, st) ==
  LET name == ChildByFieldName(tree, n, "chip_name")
      chipName == NodeText(tree, text, name)
  IN IF name = NIL THEN st
     ELSE IF chipName \notin chips
       THEN [st EXCEPT !.diags = Append(@, newDiagnostic(tree, name, MsgUndefined(chipName)))]
     ELSE IF chipName = st.name
       THEN [st EXCEPT !.diags = Append(@, newDiagnostic(tree, name, MsgSelf(chipName)))]
     ELSE st

\* case nodeKindPart, the chip_name rules
PartNameDiags(tree, text, chips, n, st) ==
  LET name == ChildByFieldName(tree, n, "chip_name")
      chipName == NodeText(tree, text, name)
      self == IF chipName = st.name
                THEN <<newDiagnostic(tree, name, MsgSelf(chipName))>> ELSE <<>>
      undef == IF chipName \notin chips
                 THEN <<newDiagnostic(tree, name, MsgUndefined(chipName))>> ELSE <<>>
  IN IF name = NIL THEN st
     ELSE [st EXCEPT !.diags = @ \o self \o undef]

\* case nodeKindPart, the loop over the direct children: the first error
\* child decides, and child.Child(1) is handed to newDiagnostic unchecked.
PartErrorDiags(tree, text, n, st) ==
  LET kids == tree[n].children
      errs == {i \in 1..Len(kids) : IsError(tree, kids[i])}
      child == kids[CHOOSE i \in errs : \A j \in errs : i <= j]
      anchor == Child(tree, child, 1)
  IN IF errs = {} THEN st
     ELSE IF ~HasPrefix(TrimSpace(NodeText(tree, text, child)), <<")">>) THEN st
     ELSE IF anchor = NIL THEN [st EXCEPT !.panic = TRUE]
     ELSE [st EXCEPT !.diags = Append(@, newDiagnostic(tree, anchor, MsgExpectedSemi))]

\* The switch on the node kind.
Visit(tree, text, chips, n, st) ==
  LET Switch(seen) ==
        IF tree[n].kind = "chip_definition" THEN VisitChipDefinition(tree, text, n, seen)
        ELSE IF tree[n].kind = "part"
          THEN PartErrorDiags(tree, text, n, PartNameDiags(tree, text, chips, n, seen))
        ELSE seen
  IN Switch([st EXCEPT !.visited = Append(@, n)])

RECURSIVE Walk(_, _, _, _, _)
RECURSIVE WalkChildren(_, _, _, _, _)
\* walk(n): visit n, then walk its named children in order.
Walk(tree, text, chips, n, st) ==
  LET Descend(st1) ==
        IF st1.panic THEN st1
        ELSE WalkChildren(tree, text, chips, NamedChildren(tree, n), st1)
  IN Descend(Visit(tree, text, chips, n, st))

WalkChildren(tree, text, chips, kids, st) ==
  IF kids = <<>> \/ st.panic THEN st
  ELSE WalkChildren(tree, text, chips, Tail(kids),
                    Walk(tree, text, chips, Head(kids), st))

\* The chips of the model's definition files.
NameX == <<"X">>

NameF == <<"F">>

NameB == <<"B">>

ChipNames == {NameX, NameF, NameB}

\* walk(tree.RootNode()) for each source and each catalog over the chip
\* names of the model's files: the walk reads nothing else.
WalkOf ==
  {[src |-> i, chips |-> chips,
    st |-> Walk(Sources[i].tree, Sources[i].text, chips, 1, WalkStart)] :
     i \in 1..Len(Sources), chips \in SUBSET ChipNames}

\* publishDiagnostics(source, uri, version).  sendOk is the outcome of
\* server.SendNotification.  diags and visited are the walk's slice and
\* visit order when the walk ended or panicked.
publishDiagnostics(source, uri, version, chips, sendOk) ==
  LET Outcome(st, status, sent) ==
        [diags |-> st.diags, visited |-> st.visited, status |-> status, sent |-> sent]
      Publish(st) ==
        IF st.panic THEN Outcome(st, "panic", <<>>)
        ELSE IF ~sendOk THEN Outcome(st, "error", <<>>)
        ELSE Outcome(st, "ok",
                     <<[uri |-> uri, version |-> version, diagnostics |-> st.diags]>>)
  IN Publish(IF chips \in SUBSET ChipNames
               THEN (CHOOSE w \in WalkOf : w.src = SourceOf(source) /\ w.chips = chips).st
             ELSE Walk(Parse(source), source, chips, 1, WalkStart))

\* ------------------------------------------------------------------------
\* Paths.  "/n/p/1/X.hdl" is <<n, p, 1, X.hdl>>; a URI is the path behind a
\* first component "file:".
\* ------------------------------------------------------------------------
ext == <<".", "h", "d", "l">>

FileScheme == <<"f", "i", "l", "e", ":">>

DotDot == <<".", ".">>

ToolsName == <<"t", "o", "o", "l", "s">>

BuiltInChipsName == <<"b", "u", "i", "l", "t", "I", "n", "C", "h", "i", "p", "s">>

\* filepath.Clean of a rooted path: ".." drops the component before it, and
\* is dropped itself at the root.
RECURSIVE CleanFrom(_, _)
CleanFrom(done, rest) ==
  IF rest = <<>> THEN done
  ELSE IF Head(rest) = DotDot
    THEN CleanFrom(IF done = <<>> THEN done ELSE SubSeq(done, 1, Len(done) - 1), Tail(rest))
  ELSE CleanFrom(Append(done, Head(rest)), Tail(rest))

Clean(path) == CleanFrom(<<>>, path)

\* filepath.Join
Join(path, elems) == Clean(path \o elems)

\* filepath.Dir
Dir(path) == IF path = <<>> THEN <<>> ELSE Clean(SubSeq(path, 1, Len(path) - 1))

\* filepath.Base
Base(path) == IF path = <<>> THEN <<>> ELSE path[Len(path)]

\* filepath.Ext: the suffix of the last component from its last dot on.
ExtOf(path) ==
  LET name == Base(path)
      dots == {i \in 1..Len(name) : name[i] = "."}
  IN IF dots = {} THEN <<>>
     ELSE SubSeq(name, CHOOSE i \in dots : \A j \in dots : j <= i, Len(name))

\* toFilePath: strip the "file:" prefix.  url.QueryUnescape changes only
\* '+' and '%', which no name of this model holds.
toFilePath(uri) ==
  IF uri # <<>> /\ Head(uri) = FileScheme THEN Tail(uri) ELSE uri

\* baseDir(uri)
baseDir(uri) == Dir(toFilePath(uri))

\* builtInChipsDir(uri)
builtInChipsDir(uri) ==
  Join(Clean(Join(baseDir(uri), <<DotDot, DotDot>>)), <<ToolsName, BuiltInChipsName>>)

\* ------------------------------------------------------------------------
\* The file system the server runs on: disk maps each existing file to its
\* bytes, dirs maps each existing directory to "ok" or "locked" (a locked
\* directory is one os.ReadDir fails on).
\* ------------------------------------------------------------------------
W1 == <<<<"n">>, <<"p">>, <<"1">>>>

W2 == <<<<"n">>, <<"p">>, <<"2">>>>

Sub == W1 \o <<<<"s">>>>

Lib == <<<<"n">>, ToolsName, BuiltInChipsName>>

HdlFile(dir, chip) == dir \o <<chip \o ext>>

TstFile(dir, chip) == dir \o <<chip \o <<".", "t", "s", "t">>>>

DirPaths == {W1, W2, Sub, Lib}

\* The files of the model and the bytes a write puts into each.
DefaultContent ==
  (HdlFile(W1, NameX) :> SrcXorText) @@ (HdlFile(W1, NameF) :> SrcFooText) @@
  (TstFile(W1, NameB) :> SrcEmptyText) @@ (HdlFile(Sub, NameB) :> SrcBarText) @@
  (HdlFile(W2, NameB) :> SrcBarText) @@ (HdlFile(Lib, NameF) :> SrcFooLibText)

FilePaths == DOMAIN DefaultContent

U1 == <<FileScheme>> \o HdlFile(W1, NameX)

U2 == <<FileScheme>> \o HdlFile(W2, NameB)

Uris == {U1, U2}

IsUnder(path, dir) ==
  /\ Len(dir) < Len(path)
  /\ SubSeq(path, 1, Len(dir)) = dir

\* The names os.ReadDir(dir) returns, sorted.
EntryNames(dsk, drs, dir) ==
  {Base(p) : p \in {q \in (DOMAIN dsk) \cup (DOMAIN drs) : Dir(q) = dir /\ q # <<>>}}

RECURSIVE SortNames(_)
SortNames(S) ==
  IF S = {} THEN <<>>
  ELSE LET m == CHOOSE x \in S : \A y \in S \ {x} : StrLess(x, y)
       IN <<m>> \o SortNames(S \ {m})

\* ------------------------------------------------------------------------
\* collectChips: filepath.WalkDir over dir with the callback of lines
\* 471-480.  acc is [chips, err]; the walk stops at the first error, and
\* what was inserted before it stays.
\* ------------------------------------------------------------------------
RECURSIVE walkDir(_, _, _, _)
RECURSIVE walkEntries(_, _, _, _, _)
walkDir(dsk, drs, path, acc) ==
  IF path \in DOMAIN dsk
    THEN IF ExtOf(path) = ext
           THEN [acc EXCEPT !.chips = @ \cup {TrimSuffix(Base(path), ext)}]
           ELSE acc
  ELSE IF path \notin DOMAIN drs THEN [acc EXCEPT !.err = TRUE]
  ELSE IF drs[path] = "locked" THEN [acc EXCEPT !.err = TRUE]
  ELSE walkEntries(dsk, drs, path, SortNames(EntryNames(dsk, drs, path)), acc)

walkEntries(dsk, drs, dir, names, acc) ==
  IF names = <<>> \/ acc.err THEN acc
  ELSE walkEntries(dsk, drs, dir, Tail(names),
                   walkDir(dsk, drs, dir \o <<Head(names)>>, acc))

\* A slip that flips the membership of each name found instead of
\* inserting it.
collectChipsFlip(dsk, drs, dir, chips) ==
  LET Flip(found) ==
        [chips |-> (chips \ found.chips) \cup (found.chips \ chips), err |-> found.err]
  IN Flip(walkDir(dsk, drs, dir, [chips |-> {}, err |-> FALSE]))

\* A slip that rebuilds the catalog from the scan instead of adding to it.
collectChipsReplace(dsk, drs, dir, chips) ==
  walkDir(dsk, drs, dir, [chips |-> {}, err |-> FALSE])

collectChips(dsk, drs, dir, chips) ==
  walkDir(dsk, drs, dir, [chips |-> chips, err |-> FALSE])

\* ------------------------------------------------------------------------
\* getByteOffset.  Indexing lines[line] past the slice and slicing a line
\* past its length are run-time panics in Go.
\* ------------------------------------------------------------------------
RECURSIVE SumLines(_, _)
SumLines(lines, k) == IF k = 0 THEN 0 ELSE SumLines(lines, k - 1) + Len(lines[k]) + 1

getByteOffset(text, line, char) ==
  LET lines == SplitLines(text)
  IN IF line > Len(lines) THEN [panic |-> FALSE, offset |-> Len(text)]
     ELSE IF line >= Len(lines) THEN [panic |-> TRUE, offset |-> 0]
     ELSE IF char > Len(lines[line + 1]) THEN [panic |-> TRUE, offset |-> 0]
     ELSE [panic |-> FALSE, offset |-> SumLines(lines, line) + char]

\* ------------------------------------------------------------------------
\* Node.DescendantForByteRange(lo, hi) as tree-sitter computes it: from the
\* node, step into the first child that ends at or after hi and after lo,
\* provided it starts at or before lo; stop when there is none.
\* ------------------------------------------------------------------------
RECURSIVE DescendantForByteRange(_, _, _, _)
DescendantForByteRange(tree, n, lo, hi) ==
  LET kids == tree[n].children
      cand == {i \in 1..Len(kids) : tree[kids[i]].end >= hi /\ tree[kids[i]].end > lo}
      c == kids[CHOOSE i \in cand : \A j \in cand : i <= j]
  IN IF cand = {} THEN n
     ELSE IF lo < tree[c].start THEN n
     ELSE DescendantForByteRange(tree, c, lo, hi)

\* Node.Parent: NIL for the root.
Parent(tree, n) == tree[n].parent

\* ------------------------------------------------------------------------
\* OnDefinition.
\* ------------------------------------------------------------------------
\* The walk of lines 418-431: the name span of the last chip definition
\* visited in pre-order, the zero Point when there is none.
RECURSIVE NameSpan(_, _, _)
RECURSIVE NameSpanChildren(_, _, _)
NameSpan(tree, n, span) ==
  LET name == IF tree[n].kind = "chip_definition"
                THEN ChildByFieldName(tree, n, "name") ELSE NIL
      here == IF name # NIL THEN NodeRange(tree, name) ELSE span
  IN NameSpanChildren(tree, NamedChildren(tree, n), here)

NameSpanChildren(tree, kids, span) ==
  IF kids = <<>> THEN span
  ELSE NameSpanChildren(tree, Tail(kids), NameSpan(tree, Head(kids), span))

ZeroSpan ==
  [start |-> [line |-> 0, character |-> 0], end |-> [line |-> 0, character |-> 0]]

\* A slip that looks in the built-in library first.
ResolveTargetLibFirst(dsk, uri, fileName) ==
  LET path == Join(builtInChipsDir(uri), <<fileName>>)
  IN IF path \notin DOMAIN dsk THEN Join(baseDir(uri), <<fileName>>) ELSE path

\* Lines 397-403: os.Stat of the file in the document's directory, the
\* built-in directory when it does not exist there.
ResolveTarget(dsk, uri, fileName) ==
  LET path == Join(baseDir(uri), <<fileName>>)
  IN IF path \notin DOMAIN dsk THEN Join(builtInChipsDir(uri), <<fileName>>) ELSE path

\* The tree whose chip definition gives the returned span: the handler
\* parses the target file into targetTree and then walks tree.RootNode(),
\* the tree of the requesting document (line 433).
SpanTree(tree, targetTree) == tree

\* A slip that answers a target that cannot be read with an empty result.
DefinitionOfPartQuiet(dsk, uri, source, tree, node) ==
  LET Found(name, targetUri, targetRange) ==
        IF name = NIL \/ toFilePath(targetUri) \notin DOMAIN dsk
          THEN [status |-> "ok", result |-> <<>>]
        ELSE [status |-> "ok",
              result |-> <<[targetUri |-> <<FileScheme>> \o targetUri,
                            targetRange |-> targetRange,
                            targetSelectionRange |-> targetRange]>>]
      Named(name) ==
        Found(name, ResolveTarget(dsk, uri, NodeText(tree, source, name) \o ext),
              NameSpan(tree, 1, ZeroSpan))
  IN Named(ChildByFieldName(tree, node, "chip_name"))

\* Lines 393-453, for a part node.
DefinitionOfPart(dsk, uri, source, tree, node) ==
  LET name == ChildByFieldName(tree, node, "chip_name")
      fileName == NodeText(tree, source, name) \o ext
      targetUri == ResolveTarget(dsk, uri, fileName)
      targetPath == toFilePath(targetUri)
      targetTree == Parse(dsk[targetPath])
      targetRange == NameSpan(SpanTree(tree, targetTree), 1, ZeroSpan)
  IN IF name = NIL THEN [status |-> "ok", result |-> <<>>]
     ELSE IF targetPath \notin DOMAIN dsk THEN [status |-> "error", result |-> <<>>]
     ELSE [status |-> "ok",
           result |-> <<[targetUri |-> <<FileScheme>> \o targetUri,
                         targetRange |-> targetRange,
                         targetSelectionRange |-> targetRange]>>]

\* The handler: status "ok" with zero or one location, "error", or "panic".
OnDefinition(dsk, uri, line, char) ==
  LET path == toFilePath(uri)
      source == dsk[path]
      off == getByteOffset(source, line, char)
      tree == Parse(source)
      node == Parent(tree, DescendantForByteRange(tree, 1, off.offset, off.offset))
  IN IF path \notin DOMAIN dsk THEN [status |-> "error", result |-> <<>>]
     ELSE IF off.panic THEN [status |-> "panic", result |-> <<>>]
     ELSE IF node = NIL THEN [status |-> "panic", result |-> <<>>]
     ELSE IF tree[node].kind = "part" THEN DefinitionOfPart(dsk, uri, source, tree, node)
     ELSE [status |-> "ok", result |-> <<>>]

\* ------------------------------------------------------------------------
\* The handlers as steps of the server.  last records the event handled
\* last and what it produced: status is "ok" (the handler returned nil),
\* "error" (it returned an error) or "panic"; passes holds one
\* publishDiagnostics record per pass run, sent the notifications delivered.
\* ------------------------------------------------------------------------
\* The text the editor sends in the events of a session.
SessionTexts == {SrcXorText}

Versions == {1}

Put(f, k, v) == [x \in (DOMAIN f) \cup {k} |-> IF x = k THEN v ELSE f[x]]

Drop(f, K) == [x \in (DOMAIN f) \ K |-> f[x]]

\* Some file named n.hdl lies in or below one of the two directories an
\* open event of the document scans.
InEitherDir(dsk, uri, n) ==
  \E p \in DOMAIN dsk :
    /\ Base(p) = n \o ext
    /\ IsUnder(p, baseDir(uri)) \/ IsUnder(p, builtInChipsDir(uri))

\* A slip that forgets the scan of the opened file's directory.
OpenScansBuiltInOnly(dsk, drs, uri, chips) ==
  collectChips(dsk, drs, builtInChipsDir(uri), chips)

\* A slip that scans the opened file's directory whatever the first scan
\* returned.
OpenScansBoth(dsk, drs, uri, chips) ==
  LET Second(r1) ==
        LET Merge(r2) == [chips |-> r2.chips, err |-> r1.err \/ r2.err]
        IN Merge(collectChips(dsk, drs, baseDir(uri), r1.chips))
  IN Second(collectChips(dsk, drs, builtInChipsDir(uri), chips))

\* Lines 354-360: the built-in directory, then the opened file's directory;
\* the second scan does not run when the first fails.
OpenScans(dsk, drs, uri, chips) ==
  LET r1 == collectChips(dsk, drs, builtInChipsDir(uri), chips)
  IN IF r1.err THEN r1 ELSE collectChips(dsk, drs, baseDir(uri), r1.chips)

\* A slip that restores the catalog when a scan of the open handler fails.
DidOpenRollback(uri, text, version, sendOk) ==
  LET Event(status, passes, sent) ==
        [op |-> "open", uri |-> uri, version |-> version, texts |-> <<text>>,
         status |-> status, passes |-> passes, sent |-> sent]
      Published(pub) == Event(pub.status, <<pub>>, pub.sent)
      Scanned(sc) ==
        /\ implementedChips' = IF sc.err THEN implementedChips ELSE sc.chips
        /\ last' = IF sc.err THEN Event("error", <<>>, <<>>)
                   ELSE Published(publishDiagnostics(text, uri, version, sc.chips, sendOk))
  IN /\ openFiles' = Put(openFiles, uri, text)
     /\ Scanned(OpenScans(disk, dirs, uri, implementedChips))
     /\ opened' = [uri |-> uri, absent |-> {n \in ChipNames : ~InEitherDir(disk, uri, n)}]
     /\ UNCHANGED <<disk, dirs>>

\* OnDidOpenTextDocument.  opened is a history variable: the document of
\* the latest open event and the chips that had no file in either scanned
\* directory when it was handled.
DidOpen(uri, text, version, sendOk) ==
  LET Event(status, passes, sent) ==
        [op |-> "open", uri |-> uri, version |-> version, texts |-> <<text>>,
         status |-> status, passes |-> passes, sent |-> sent]
      Published(pub) == Event(pub.status, <<pub>>, pub.sent)
      Scanned(sc) ==
        /\ implementedChips' = sc.chips
        /\ last' = IF sc.err THEN Event("error", <<>>, <<>>)
                   ELSE Published(publishDiagnostics(text, uri, version, sc.chips, sendOk))
  IN /\ openFiles' = Put(openFiles, uri, text)
     /\ Scanned(OpenScans(disk, dirs, uri, implementedChips))
     /\ opened' = [uri |-> uri, absent |-> {n \in ChipNames : ~InEitherDir(disk, uri, n)}]
     /\ UNCHANGED <<disk, dirs>>

\* A slip that analyses a change against a fresh scan of the document's
\* directory instead of the catalog.
RECURSIVE ChangePassesFresh(_, _, _, _, _, _)
ChangePassesFresh(texts, k, uri, version, failAt, acc) ==
  IF k > Len(texts) THEN acc
  ELSE LET chips == collectChips(disk, dirs, baseDir(uri), implementedChips).chips
           Rest(acc1) ==
             IF acc1.status # "ok" THEN acc1
             ELSE ChangePassesFresh(texts, k + 1, uri, version, failAt, acc1)
           Pass(pub) ==
             Rest([status |-> pub.status, passes |-> Append(acc.passes, pub),
                   sent |-> acc.sent \o pub.sent])
       IN Pass(publishDiagnostics(texts[k], uri, version, chips, k # failAt))

\* The loop of OnDidChangeTextDocument over req.ContentChanges: it returns
\* at the first pass that does not return nil.  failAt is the entry whose
\* SendNotification fails, 0 for none.
RECURSIVE ChangePasses(_, _, _, _, _, _)
ChangePasses(texts, k, uri, version, failAt, acc) ==
  IF k > Len(texts) THEN acc
  ELSE LET Rest(acc1) ==
             IF acc1.status # "ok" THEN acc1
             ELSE ChangePasses(texts, k + 1, uri, version, failAt, acc1)
           Pass(pub) ==
             Rest([status |-> pub.status, passes |-> Append(acc.passes, pub),
                   sent |-> acc.sent \o pub.sent])
       IN Pass(publishDiagnostics(texts[k], uri, version, implementedChips, k # failAt))

\* OnDidChangeTextDocument
DidChange(uri, texts, version, failAt) ==
  /\ last' = [op |-> "change", uri |-> uri, version |-> version, texts |-> texts]
               @@ ChangePasses(texts, 1, uri, version, failAt,
                               [status |-> "ok", passes |-> <<>>, sent |-> <<>>])
  /\ UNCHANGED <<disk, dirs, implementedChips, openFiles, opened>>

\* A slip that resolves against the unsaved buffer of the document when
\* there is one.
DefinitionFromBuffer(uri, line, char) ==
  LET Seen(dsk) ==
        [op |-> "definition", uri |-> uri, line |-> line, char |-> char]
          @@ OnDefinition(dsk, uri, line, char)
  IN /\ last' = Seen(IF uri \in DOMAIN openFiles
                       THEN Put(disk, toFilePath(uri), openFiles[uri]) ELSE disk)
     /\ UNCHANGED <<disk, dirs, implementedChips, openFiles, opened>>

\* OnDefinition
Definition(uri, line, char) ==
  /\ last' = [op |-> "definition", uri |-> uri, line |-> line, char |-> char]
               @@ OnDefinition(disk, uri, line, char)
  /\ UNCHANGED <<disk, dirs, implementedChips, openFiles, opened>>

\* ------------------------------------------------------------------------
\* The environment: files and directories come and go under the server.
\* ------------------------------------------------------------------------
FsEvent == [op |-> "fs"]

\* The files that come and go while the server runs; the two documents and
\* the test script stay.
MutablePaths == {HdlFile(W1, NameF), HdlFile(Sub, NameB), HdlFile(Lib, NameF)}

\* The cursors of the definition requests of a session.
Cursors == {<<2, 7>>}

WriteFile(p) ==
  /\ p \in MutablePaths
  /\ p \notin DOMAIN disk
  /\ Dir(p) \in DOMAIN dirs
  /\ disk' = Put(disk, p, DefaultContent[p])
  /\ last' = FsEvent
  /\ UNCHANGED <<dirs, implementedChips, openFiles, opened>>

RemoveFile(p) ==
  /\ p \in MutablePaths
  /\ p \in DOMAIN disk
  /\ disk' = Drop(disk, {p})
  /\ last' = FsEvent
  /\ UNCHANGED <<dirs, implementedChips, openFiles, opened>>

RenamePairs ==
  {<<HdlFile(W1, NameF), HdlFile(Sub, NameB)>>, <<HdlFile(Sub, NameB), HdlFile(W1, NameF)>>}

Rename(p, q) ==
  /\ p \in DOMAIN disk
  /\ q \notin DOMAIN disk
  /\ Dir(q) \in DOMAIN dirs
  /\ disk' = Put(Drop(disk, {p}), q, disk[p])
  /\ last' = FsEvent
  /\ UNCHANGED <<dirs, implementedChips, openFiles, opened>>

RemovableDirs == {Sub, Lib}

Mkdir(d) ==
  /\ d \in RemovableDirs
  /\ d \notin DOMAIN dirs
  /\ dirs' = Put(dirs, d, "ok")
  /\ last' = FsEvent
  /\ UNCHANGED <<disk, implementedChips, openFiles, opened>>

RemoveAll(d) ==
  /\ d \in RemovableDirs
  /\ d \in DOMAIN dirs
  /\ dirs' = Drop(dirs, {d})
  /\ disk' = Drop(disk, {p \in DOMAIN disk : IsUnder(p, d)})
  /\ last' = FsEvent
  /\ UNCHANGED <<implementedChips, openFiles, opened>>

Chmod(d) ==
  /\ d = Sub
  /\ d \in DOMAIN dirs
  /\ dirs' = [dirs EXCEPT ![d] = IF @ = "ok" THEN "locked" ELSE "ok"]
  /\ last' = FsEvent
  /\ UNCHANGED <<disk, implementedChips, openFiles, opened>>

NoneOpened == [uri |-> <<>>, absent |-> {}]

SeqsUpTo(S, n) == UNION {[1..k -> S] : k \in 0..n}

Init ==
  /\ disk = [p \in {HdlFile(W1, NameX), TstFile(W1, NameB), HdlFile(W2, NameB), HdlFile(Lib, NameF)}
               |-> DefaultContent[p]]
  /\ dirs = [d \in {W1, W2, Lib} |-> "ok"]
  /\ implementedChips = {}
  /\ openFiles = <<>>
  /\ last = [op |-> "init"]
  /\ opened = NoneOpened

Next ==
  \/ \E uri \in Uris, text \in SessionTexts, version \in Versions, sendOk \in BOOLEAN :
       DidOpen(uri, text, version, sendOk)
  \/ \E uri \in Uris, texts \in SeqsUpTo(SessionTexts, MaxChanges), version \in Versions :
       \E failAt \in 0..Len(texts) : DidChange(uri, texts, version, failAt)
  \/ \E uri \in Uris, c \in Cursors : Definition(uri, c[1], c[2])
  \/ \E p \in FilePaths : WriteFile(p)
  \/ \E p \in FilePaths : RemoveFile(p)
  \/ \E pq \in RenamePairs : Rename(pq[1], pq[2])
  \/ \E d \in DirPaths : Mkdir(d)
  \/ \E d \in DirPaths : RemoveAll(d)
  \/ \E d \in DirPaths : Chmod(d)

Spec == Init /\ [][Next]_vars

\* ------------------------------------------------------------------------
\* One analysis pass over any source and any catalog.
\* ------------------------------------------------------------------------
StartDisk ==
  [p \in {HdlFile(W1, NameX), TstFile(W1, NameB), HdlFile(W2, NameB), HdlFile(Lib, NameF)}
     |-> DefaultContent[p]]

StartDirs == [d \in {W1, W2, Lib} |-> "ok"]

InitAnalyze ==
  /\ disk = StartDisk
  /\ dirs = StartDirs
  /\ openFiles = <<>>
  /\ opened = NoneOpened
  /\ implementedChips \in SUBSET ChipNames
  /\ last \in [op : {"source"}, text : Texts]

Analyze(sendOk) ==
  /\ last.op = "source"
  /\ last' = [op |-> "pass", text |-> last.text,
              pass |-> publishDiagnostics(last.text, U1, 1, implementedChips, sendOk)]
  /\ UNCHANGED <<disk, dirs, implementedChips, openFiles, opened>>

NextAnalyze == \E sendOk \in BOOLEAN : Analyze(sendOk)

SpecAnalyze == InitAnalyze /\ [][NextAnalyze]_vars

\* ------------------------------------------------------------------------
\* getByteOffset over any text and cursor.
\* ------------------------------------------------------------------------
InitOffset ==
  /\ disk = StartDisk
  /\ dirs = StartDirs
  /\ openFiles = <<>>
  /\ opened = NoneOpened
  /\ implementedChips = {}
  /\ last \in [op : {"cursor"}, text : Texts, line : 0..MaxLine, char : 0..MaxChar]

Offset ==
  /\ last.op = "cursor"
  /\ last' = [op |-> "offset", text |-> last.text, line |-> last.line, char |-> last.char,
              r |-> getByteOffset(last.text, last.line, last.char)]
  /\ UNCHANGED <<disk, dirs, implementedChips, openFiles, opened>>

NextOffset == Offset

SpecOffset == InitOffset /\ [][NextOffset]_vars

\* ------------------------------------------------------------------------
\* One definition request over any set of files and any cursor.
\* ------------------------------------------------------------------------
AllDisks == {[p \in S |-> DefaultContent[p]] : S \in SUBSET FilePaths}

InitDefinition ==
  /\ disk \in AllDisks
  /\ dirs = [d \in DirPaths |-> "ok"]
  /\ openFiles = <<>>
  /\ opened = NoneOpened
  /\ implementedChips = {}
  /\ last \in [op : {"request"}, uri : Uris, line : 0..MaxLine, char : 0..MaxChar]

Resolve ==
  /\ last.op = "request"
  /\ Definition(last.uri, last.line, last.char)

NextDefinition == Resolve

SpecDefinition == InitDefinition /\ [][NextDefinition]_vars

\* ------------------------------------------------------------------------
\* One definition request over any set of files and any cursor, after
\* events that left a catalog and unsaved buffers behind.
\* ------------------------------------------------------------------------
\* Buffers that differ from the files of their documents.
Edited == (U1 :> SrcFooText) @@ (U2 :> SrcXorText)

InitRequest ==
  /\ disk \in AllDisks
  /\ dirs = [d \in DirPaths |-> "ok"]
  /\ openFiles \in {<<>>, Edited}
  /\ opened = NoneOpened
  /\ implementedChips \in {{}, ChipNames}
  /\ last \in [op : {"request"}, uri : Uris, line : 0..MaxLine, char : 0..MaxChar]

SpecRequest == InitRequest /\ [][NextDefinition]_vars

\* ------------------------------------------------------------------------
\* One change notification with any content changes, over any catalog.
\* ------------------------------------------------------------------------
ChangeVersions == {1, 2}

InitChange ==
  /\ disk = StartDisk
  /\ dirs = StartDirs
  /\ openFiles \in {<<>>, Edited}
  /\ opened = NoneOpened
  /\ implementedChips \in SUBSET ChipNames
  /\ last = [op |-> "init"]

Change(uri, texts, version, failAt) ==
  /\ last.op = "init"
  /\ DidChange(uri, texts, version, failAt)

NextChange ==
  \E uri \in Uris, texts \in SeqsUpTo(Texts, MaxEntries), version \in ChangeVersions :
    \E failAt \in 0..Len(texts) : Change(uri, texts, version, failAt)

SpecChange == InitChange /\ [][NextChange]_vars

\* ------------------------------------------------------------------------
\* collectChips over any directory tree and any starting catalog.
\* ------------------------------------------------------------------------
\* The directory trees of the model: a file lies in a directory that
\* exists, s lies in 1, and s may be unreadable.
AllDirs ==
  {drs \in UNION {[S -> {"ok", "locked"}] : S \in SUBSET DirPaths} :
     /\ Sub \in DOMAIN drs => W1 \in DOMAIN drs
     /\ \A d \in DOMAIN drs : drs[d] = "locked" => d = Sub}

InitCollect ==
  /\ dirs \in AllDirs
  /\ disk \in {dsk \in AllDisks : \A p \in DOMAIN dsk : Dir(p) \in DOMAIN dirs}
  /\ openFiles = <<>>
  /\ opened = NoneOpened
  /\ implementedChips \in SUBSET ChipNames
  /\ last = [op |-> "init"]

Collected(dir, scan) ==
  /\ implementedChips' = scan.chips
  /\ last' = [op |-> "collect", dir |-> dir, before |-> implementedChips, err |-> scan.err]
  /\ UNCHANGED <<disk, dirs, openFiles, opened>>

Collect(dir) == Collected(dir, collectChips(disk, dirs, dir, implementedChips))

NextCollect == \E dir \in DirPaths : Collect(dir)

SpecCollect == InitCollect /\ [][NextCollect]_vars

\* ------------------------------------------------------------------------
\* Vocabulary of the properties.
\* ------------------------------------------------------------------------
\* The nodes walk visits when nothing stops it: pre-order over named children.
RECURSIVE PreOrder(_, _)
RECURSIVE PreOrderAll(_, _)
PreOrder(tree, n) == <<n>> \o PreOrderAll(tree, NamedChildren(tree, n))

PreOrderAll(tree, kids) ==
  IF kids = <<>> THEN <<>>
  ELSE PreOrder(tree, Head(kids)) \o PreOrderAll(tree, Tail(kids))

\* The positions in a visit order that hold a part with a chip_name.
NamedParts(tree, visited) ==
  {i \in 1..Len(visited) :
     tree[visited[i]].kind = "part" /\ ChildByFieldName(tree, visited[i], "chip_name") # NIL}

ChipNameOf(tree, text, visited, i) ==
  NodeText(tree, text, ChildByFieldName(tree, visited[i], "chip_name"))

ChipNameRange(tree, visited, i) ==
  NodeRange(tree, ChildByFieldName(tree, visited[i], "chip_name"))

\* How many diagnostics of the slice are exactly d.
CountOf(diags, d) == Cardinality({k \in 1..Len(diags) : diags[k] = d})

\* How many diagnostics of the slice open with the given format piece.
CountKind(diags, piece) == Cardinality({k \in 1..Len(diags) : diags[k].message[1] = piece})

Diag(range, msg) == [range |-> range, severity |-> DiagnosticSeverityError, message |-> msg]

\* The current defining name when position i of the visit order is visited:
\* the name of the last chip definition with a name field visited before it.
DefiningNameAt(tree, text, visited, i) ==
  LET defs == {j \in 1..(i - 1) :
                 /\ tree[visited[j]].kind = "chip_definition"
                 /\ ChildByFieldName(tree, visited[j], "name") # NIL}
  IN IF defs = {} THEN <<>>
     ELSE NodeText(tree, text,
            ChildByFieldName(tree, visited[CHOOSE j \in defs : \A k \in defs : k <= j], "name"))

\* C1: in every analysis pass the "Undefined chip name: X" diagnostics are
\* exactly one per visited part whose chip_name X is not in the catalog,
\* anchored at the chip_name node's range, whether or not the part also
\* gets a self-reference diagnostic; a part whose chip_name is in the
\* catalog gets none.
UndefinedOncePerOccurrence ==
  last.op = "pass" =>
    LET tree == Parse(last.text)
        vis == last.pass.visited
        diags == last.pass.diags
        parts == NamedParts(tree, vis)
        name(i) == ChipNameOf(tree, last.text, vis, i)
    IN /\ \A i \in parts :
            CountOf(diags, Diag(ChipNameRange(tree, vis, i), MsgUndefined(name(i))))
              = IF name(i) \in implementedChips THEN 0 ELSE 1
       /\ CountKind(diags, "Undefined chip name: ")
            = Cardinality({i \in parts : name(i) \notin implementedChips})

\* A pass that reports one chip as undefined twice and, on one part, both
\* the self-reference and the undefined chip.
UndefinedWitness ==
  /\ last.op = "pass"
  /\ last.pass.status = "ok"
  /\ CountKind(last.pass.diags, "Undefined chip name: ") = 4
  /\ \E k, j \in 1..Len(last.pass.diags) :
       /\ last.pass.diags[k].message = MsgSelf(NameX)
       /\ last.pass.diags[j].message = MsgUndefined(NameX)
       /\ last.pass.diags[k].range = last.pass.diags[j].range
  /\ Cardinality({k \in 1..Len(last.pass.diags) :
                    last.pass.diags[k].message = MsgUndefined(NameF)}) = 2

\* C2: in every analysis pass the "Cannot use chip X to implement itself"
\* diagnostics are exactly one per visited part whose chip_name equals the
\* current defining name, anchored at the chip_name range, and none for a
\* part whose chip_name differs from it.
SelfReferenceOncePerPart ==
  last.op = "pass" =>
    LET tree == Parse(last.text)
        vis == last.pass.visited
        diags == last.pass.diags
        parts == NamedParts(tree, vis)
        name(i) == ChipNameOf(tree, last.text, vis, i)
        cur(i) == DefiningNameAt(tree, last.text, vis, i)
    IN /\ \A i \in parts :
            CountOf(diags, Diag(ChipNameRange(tree, vis, i), MsgSelf(name(i))))
              = IF name(i) = cur(i) THEN 1 ELSE 0
       /\ CountKind(diags, "Cannot use chip ")
            = Cardinality({i \in parts : name(i) = cur(i)})

\* The pass over "CHIP X{ PARTS: X(..);F(..); B(..);F(..); }" with X unknown
\* to the catalog: one self-reference diagnostic, at the inner X.
SelfReferenceWitness ==
  /\ last.op = "pass"
  /\ last.text = SrcXorText
  /\ NameX \notin implementedChips
  /\ CountKind(last.pass.diags, "Cannot use chip ") = 1
  /\ \E k \in 1..Len(last.pass.diags) :
       last.pass.diags[k] =
         Diag([start |-> [line |-> 2, character |-> 0],
               end |-> [line |-> 2, character |-> 1]], MsgSelf(NameX))

\* C10: malformed source never aborts the analysis: whatever tree the
\* parser returns, the pass visits the whole tree and, when the transport
\* accepts it, publishes its notification.
AnalysisNeverAborts ==
  last.op = "pass" =>
    /\ last.pass.status # "panic"
    /\ last.pass.visited = PreOrder(Parse(last.text), 1)

\* C9: getByteOffset never fails: the result is an offset within the text,
\* and it is the length of the text when the line index is at or past the
\* number of lines.
OffsetClamped ==
  last.op = "offset" =>
    /\ ~last.r.panic
    /\ last.r.offset \in 0..Len(last.text)
    /\ last.line >= Len(SplitLines(last.text)) => last.r.offset = Len(last.text)

\* ------------------------------------------------------------------------
\* Definition requests.
\* ------------------------------------------------------------------------
\* The request recorded in last reads a document that is on disk.
RequestReadable == last.op = "definition" /\ toFilePath(last.uri) \in DOMAIN disk

RequestSource == disk[toFilePath(last.uri)]

RequestOffset == getByteOffset(RequestSource, last.line, last.char)

\* The parent of the smallest node covering the cursor offset, NIL when
\* that node is the root.
RequestNode ==
  Parent(Parse(RequestSource),
         DescendantForByteRange(Parse(RequestSource), 1, RequestOffset.offset,
                                RequestOffset.offset))

\* The cursor is on a part that has a chip_name.
RequestOnPart ==
  /\ RequestReadable
  /\ ~RequestOffset.panic
  /\ RequestNode # NIL
  /\ Parse(RequestSource)[RequestNode].kind = "part"
  /\ ChildByFieldName(Parse(RequestSource), RequestNode, "chip_name") # NIL

RequestChip ==
  NodeText(Parse(RequestSource), RequestSource,
           ChildByFieldName(Parse(RequestSource), RequestNode, "chip_name"))

\* C6: a definition request on an instantiation of N returns the N.hdl of
\* the document's own directory whenever that file exists, also when the
\* built-in library has an N.hdl too; the built-in file is returned only
\* when the document's own directory has no N.hdl.
DefinitionPrefersOwnDirectory ==
  RequestOnPart =>
    LET own == HdlFile(baseDir(last.uri), RequestChip)
        lib == HdlFile(builtInChipsDir(last.uri), RequestChip)
    IN /\ own \in DOMAIN disk =>
            /\ last.status = "ok"
            /\ Len(last.result) = 1
            /\ last.result[1].targetUri = <<FileScheme>> \o own
       /\ (last.result # <<>> /\ last.result[1].targetUri = <<FileScheme>> \o lib) =>
            own \notin DOMAIN disk

\* F.hdl is in the document's directory and in the built-in library, and
\* the request on F answers with the file of the document's directory.
DefinitionOwnDirectoryWitness ==
  /\ RequestOnPart
  /\ RequestChip = NameF
  /\ HdlFile(W1, NameF) \in DOMAIN disk
  /\ HdlFile(Lib, NameF) \in DOMAIN disk
  /\ last.uri = U1
  /\ last.result # <<>>
  /\ last.result[1].targetUri = <<FileScheme>> \o HdlFile(W1, NameF)

\* C7: a successful definition request returns one location whose target
\* range and target-selection range are equal and are the name span of the
\* last chip definition, in pre-order, of the target file's tree.
DefinitionSpanFromTarget ==
  (last.op = "definition" /\ last.status = "ok" /\ last.result # <<>>) =>
    /\ Len(last.result) = 1
    /\ last.result[1].targetRange = last.result[1].targetSelectionRange
    /\ last.result[1].targetRange
         = NameSpan(Parse(disk[toFilePath(last.result[1].targetUri)]), 1, ZeroSpan)

\* C8: when the parent of the smallest node covering the cursor is not a
\* part (the smallest node being the root, without a parent, included), or
\* the part has no chip_name, the request returns an empty result, without
\* an error and without crashing.
DefinitionOutsidePartIsEmpty ==
  (RequestReadable /\ ~RequestOffset.panic /\ ~RequestOnPart) =>
    /\ last.status = "ok"
    /\ last.result = <<>>

\* ------------------------------------------------------------------------
\* Sessions: the catalog across open, change and definition events.
\* ------------------------------------------------------------------------
\* The parts with a chip_name in the sources of the model: the source,
\* the part, the chip it instantiates and the range of its chip_name.
Instantiations ==
  UNION {LET tree == Sources[i].tree
             text == Sources[i].text
         IN {[src |-> i, part |-> p,
              chip |-> NodeText(tree, text, ChildByFieldName(tree, p, "chip_name")),
              range |-> NodeRange(tree, ChildByFieldName(tree, p, "chip_name"))] :
               p \in {q \in 1..Len(tree) :
                        /\ tree[q].kind = "part"
                        /\ ChildByFieldName(tree, q, "chip_name") # NIL}} :
         i \in 1..Len(Sources)}

\* The parts of a source that instantiate chip n.
PartsNamed(text, n) == {r \in Instantiations : r.src = SourceOf(text) /\ r.chip = n}

\* The diagnostics report chip n as undefined once at each of its
\* instantiations in the text.
FlagsEvery(text, diags, n) ==
  \A r \in PartsNamed(text, n) : CountOf(diags, Diag(r.range, MsgUndefined(n))) = 1

\* The diagnostics do not report chip n as undefined.
FlagsNone(diags, n) == \A k \in 1..Len(diags) : diags[k].message # MsgUndefined(n)

\* C3 as stated: the diagnostics published for an open event do not report
\* a chip whose file is in the opened file's directory at that time, and
\* report every instantiation of a chip that has no file in either scanned
\* directory.
OpenReportsExactlyMissingFiles ==
  (last.op = "open" /\ last.status = "ok") =>
    \A n \in ChipNames :
      /\ HdlFile(baseDir(last.uri), n) \in DOMAIN disk
           => FlagsNone(last.sent[1].diagnostics, n)
      /\ ~InEitherDir(disk, last.uri, n)
           => FlagsEvery(last.texts[1], last.sent[1].diagnostics, n)

\* C3, amended: both scans of an open event run before its diagnostic
\* pass, so the published diagnostics do not report a chip whose file is in
\* the opened file's directory at that time; they report every
\* instantiation of a chip that has no file in either scanned directory
\* and was not put into the catalog by an earlier open event.
OpenDiagnosticsAfterScans ==
  [][(last'.op = "open" /\ last'.status = "ok") =>
       \A n \in ChipNames :
         /\ HdlFile(baseDir(last'.uri), n) \in DOMAIN disk
              => FlagsNone(last'.sent[1].diagnostics, n)
         /\ (~InEitherDir(disk, last'.uri, n) /\ n \notin implementedChips)
              => FlagsEvery(last'.texts[1], last'.sent[1].diagnostics, n)]_vars

\* An open of X.hdl with F.hdl beside it and no B.hdl anywhere: F is not
\* reported, B is.
OpenAfterScansWitness ==
  /\ last.op = "open"
  /\ last.status = "ok"
  /\ last.uri = U1
  /\ HdlFile(W1, NameF) \in DOMAIN disk
  /\ ~InEitherDir(disk, U1, NameB)
  /\ FlagsNone(last.sent[1].diagnostics, NameF)
  /\ PartsNamed(last.texts[1], NameF) # {}
  /\ PartsNamed(last.texts[1], NameB) # {}
  /\ FlagsEvery(last.texts[1], last.sent[1].diagnostics, NameB)
  /\ ~FlagsNone(last.sent[1].diagnostics, NameB)

\* C4 as stated: a chip that had no file in either scanned directory when
\* the document was opened, and whose file was created afterwards, is
\* reported at each instantiation by every diagnostic pass of a change
\* event for that document, as long as no later open event has happened.
StaleUntilReopen ==
  (last.op = "change" /\ last.uri = opened.uri) =>
    \A n \in opened.absent :
      InEitherDir(disk, last.uri, n) =>
        \A k \in 1..Len(last.sent) :
          FlagsEvery(last.texts[k], last.sent[k].diagnostics, n)

\* Every notification a change event delivered reports exactly the chips
\* that are not in the catalog.
ChangeReportsExactlyUnknown ==
  last.op = "change" =>
    \A k \in 1..Len(last.sent), n \in ChipNames :
      IF n \in implementedChips
        THEN FlagsNone(last.sent[k].diagnostics, n)
        ELSE FlagsEvery(last.texts[k], last.sent[k].diagnostics, n)

\* C4, amended: as long as a chip is not in the catalog (its file was in
\* no directory scanned by any open event so far), every diagnostic pass
\* of a change event reports it at each instantiation, whether or not its
\* file has been created since and whatever change and definition events
\* happen; only an open event whose scan finds the file adds the chip, and
\* from then on it is not reported.
StaleUntilRescan ==
  [][/\ ChangeReportsExactlyUnknown'
     /\ implementedChips' # implementedChips =>
          /\ last'.op = "open"
          /\ \A n \in implementedChips' \ implementedChips :
               InEitherDir(disk, last'.uri, n)]_vars

\* B.hdl was in neither directory when X.hdl was opened and has been
\* created since; a change of X.hdl still reports B.
StaleWitness ==
  /\ last.op = "change"
  /\ last.uri = U1
  /\ opened.uri = U1
  /\ NameB \in opened.absent
  /\ InEitherDir(disk, U1, NameB)
  /\ NameB \notin implementedChips
  /\ Len(last.sent) = 1
  /\ PartsNamed(last.texts[1], NameB) # {}
  /\ FlagsEvery(last.texts[1], last.sent[1].diagnostics, NameB)

\* C5: the catalog only grows: whatever the step (open, change, definition,
\* a file or directory created, deleted or renamed), every chip of the
\* catalog is still in it afterwards.
CatalogOnlyGrows == [][implementedChips \subseteq implementedChips']_vars

\* A chip stays in the catalog although no file of that name is left.
CatalogKeepsDeletedChip ==
  \E n \in implementedChips : \A p \in DOMAIN disk : Base(p) # n \o ext

\* C11: collectChips is idempotent over an unchanged directory tree: after
\* a call on a directory, for any starting catalog, a second call on the
\* same directory returns the same catalog and the same outcome.
CollectIdempotent ==
  last.op = "collect" =>
    collectChips(disk, dirs, last.dir, implementedChips)
      = [chips |-> implementedChips, err |-> last.err]

\* A call that added a name to the starting catalog and walked a tree two
\* levels deep without error.
CollectAddedWitness ==
  /\ last.op = "collect"
  /\ ~last.err
  /\ last.dir = W1
  /\ last.before = {NameF}
  /\ implementedChips = {NameF, NameX, NameB}
  /\ HdlFile(Sub, NameB) \in DOMAIN disk

\* The walk of dir fails: dir does not exist, or dir or a directory below
\* it cannot be read.
WalkFails(drs, dir) ==
  \/ dir \notin DOMAIN drs
  \/ \E d \in DOMAIN drs : (d = dir \/ IsUnder(d, dir)) /\ drs[d] = "locked"

\* Some file named n.hdl lies in or below dir.
InDir(dsk, dir, n) == \E p \in DOMAIN dsk : Base(p) = n \o ext /\ IsUnder(p, dir)

\* C12: when the walk of either scanned directory fails, the open handler
\* returns an error, runs no diagnostic pass and publishes nothing; when
\* the walk of the built-in directory fails, the opened file's directory
\* is not scanned: every name the event adds has a file in the built-in
\* directory.
OpenAbortsOnScanError ==
  [][last'.op = "open" =>
       /\ (WalkFails(dirs, builtInChipsDir(last'.uri)) \/ WalkFails(dirs, baseDir(last'.uri)))
            => (last'.status = "error" /\ last'.passes = <<>> /\ last'.sent = <<>>)
       /\ WalkFails(dirs, builtInChipsDir(last'.uri))
            => \A n \in implementedChips' \ implementedChips :
                 InDir(disk, builtInChipsDir(last'.uri), n)]_vars

\* An open of X.hdl while the built-in directory does not exist: the
\* handler failed, published nothing, and X, whose file lies beside the
\* document, was not collected.
OpenAbortedWitness ==
  /\ last.op = "open"
  /\ last.uri = U1
  /\ last.status = "error"
  /\ last.sent = <<>>
  /\ Lib \notin DOMAIN dirs
  /\ HdlFile(W1, NameX) \in DOMAIN disk
  /\ NameX \notin implementedChips

\* The chip instantiated by the part under the cursor of a request on
\* the files dsk, the empty name when the document cannot be read, the
\* offset is out of range, or the cursor is not on a part with a chip_name.
CursorChip(dsk, uri, line, char) ==
  LET OfNode(source, tree, node) ==
        IF node = NIL THEN <<>>
        ELSE IF tree[node].kind # "part" THEN <<>>
        ELSE IF ChildByFieldName(tree, node, "chip_name") = NIL THEN <<>>
        ELSE NodeText(tree, source, ChildByFieldName(tree, node, "chip_name"))
      OfOffset(source, tree, off) ==
        IF off.panic THEN <<>>
        ELSE OfNode(source, tree,
                    Parent(tree, DescendantForByteRange(tree, 1, off.offset, off.offset)))
      OfSource(source) == OfOffset(source, Parse(source), getByteOffset(source, line, char))
  IN IF toFilePath(uri) \notin DOMAIN dsk THEN <<>> ELSE OfSource(dsk[toFilePath(uri)])

\* The request fails on a read: of the document, or of the file of the
\* chip under the cursor, which is in neither directory.
ReadFails(dsk, uri, chip) ==
  \/ toFilePath(uri) \notin DOMAIN dsk
  \/ /\ chip # <<>>
     /\ HdlFile(baseDir(uri), chip) \notin DOMAIN dsk
     /\ HdlFile(builtInChipsDir(uri), chip) \notin DOMAIN dsk

\* C13: a definition request whose document cannot be read, or whose
\* cursor is on an instantiation of N with N.hdl in neither the document's
\* directory nor the built-in directory, fails with an error: no result,
\* no crash; and no definition request changes the catalog.
DefinitionReadFailureIsError ==
  [][last'.op = "definition" =>
       /\ implementedChips' = implementedChips
       /\ ReadFails(disk, last'.uri, CursorChip(disk, last'.uri, last'.line, last'.char))
            => (last'.status = "error" /\ last'.result = <<>>)]_vars

\* A request on the part B of X.hdl with no B.hdl in either directory
\* failed with an error and left a catalog of three chips alone.
DefinitionTargetMissingWitness ==
  /\ RequestOnPart
  /\ last.uri = U1
  /\ RequestChip = NameB
  /\ HdlFile(W1, NameB) \notin DOMAIN disk
  /\ HdlFile(Lib, NameB) \notin DOMAIN disk
  /\ last.status = "error"
  /\ implementedChips = ChipNames

\* The notification a pass over text delivers for the document.
Notification(uri, version, text, chips) ==
  [uri |-> uri, version |-> version,
   diagnostics |-> publishDiagnostics(text, uri, version, chips, TRUE).diags]

\* C14: a change notification with n content changes runs n diagnostic
\* passes and delivers n notifications in entry order, each over the whole
\* tree of that entry's text and with the URI and version of the
\* notification; or publishing fails for one entry k, the handler returns
\* that error, k passes ran and k - 1 notifications were delivered.
ChangeRunsEveryEntry ==
  last.op = "change" =>
    /\ last.status \in {"ok", "error"}
    /\ last.status = "ok" => Len(last.passes) = Len(last.texts)
    /\ last.status = "error" =>
         (last.passes # <<>> /\ last.passes[Len(last.passes)].status = "error")
    /\ Len(last.sent) = Len(last.passes) - (IF last.status = "ok" THEN 0 ELSE 1)
    /\ \A k \in 1..Len(last.passes) :
         last.passes[k].visited = PreOrder(Parse(last.texts[k]), 1)
    /\ \A k \in 1..Len(last.sent) :
         last.sent[k] = Notification(last.uri, last.version, last.texts[k], implementedChips)

\* C15: the content held for an opened document is the text of the most
\* recent open event or change entry for it: after an open the text of
\* the open, after a change notification that was handled without error
\* the text of its last content change.
StoredTextIsLatest ==
  /\ last.op = "open" => openFiles[last.uri] = last.texts[1]
  /\ (/\ last.op = "change"
      /\ last.status = "ok"
      /\ last.texts # <<>>
      /\ last.uri \in DOMAIN openFiles)
       => openFiles[last.uri] = last.texts[Len(last.texts)]

FirstErrorChild(tree, n) ==
  LET errs == {i \in 1..Len(tree[n].children) : IsError(tree, tree[n].children[i])}
  IN IF errs = {} THEN NIL
     ELSE tree[n].children[CHOOSE i \in errs : \A j \in errs : i <= j]

\* The first error child of the part exists and its trimmed text begins
\* with ")".
SemiDue(tree, text, n) ==
  /\ FirstErrorChild(tree, n) # NIL
  /\ HasPrefix(TrimSpace(NodeText(tree, text, FirstErrorChild(tree, n))), <<")">>)

\* C17: in every analysis pass each visited part gets one "Expected ;"
\* diagnostic, at the range of the second child of its first error child,
\* exactly when the trimmed text of that first error child begins with
\* ")"; later error children add nothing, so the pass holds one such
\* diagnostic per part whose first error child calls for it and no other.
ExpectedSemiFirstErrorOnly ==
  last.op = "pass" =>
    LET tree == Parse(last.text)
        vis == last.pass.visited
        diags == last.pass.diags
        due == {i \in 1..Len(vis) :
                  tree[vis[i]].kind = "part" /\ SemiDue(tree, last.text, vis[i])}
    IN /\ \A i \in due :
            /\ Child(tree, FirstErrorChild(tree, vis[i]), 1) # NIL
            /\ CountOf(diags, Diag(NodeRange(tree, Child(tree, FirstErrorChild(tree, vis[i]), 1)),
                                   MsgExpectedSemi)) = 1
       /\ CountKind(diags, MsgExpectedSemi[1]) = Cardinality(due)

\* The current defining name after the first k nodes of the visit order:
\* empty at the start, set by each chip definition that has a name field,
\* left alone by every other node.
RECURSIVE NameAfter(_, _, _, _)
NameAfter(tree, text, visited, k) ==
  IF k = 0 THEN <<>>
  ELSE IF /\ tree[visited[k]].kind = "chip_definition"
          /\ ChildByFieldName(tree, visited[k], "name") # NIL
    THEN NodeText(tree, text, ChildByFieldName(tree, visited[k], "name"))
  ELSE NameAfter(tree, text, visited, k - 1)

PosLeq(a, b) == a.line < b.line \/ (a.line = b.line /\ a.character <= b.character)

RangeWithin(inner, outer) == PosLeq(outer.start, inner.start) /\ PosLeq(inner.end, outer.end)

\* C18: in every analysis pass the current defining name starts empty, is
\* set by each chip definition with a name field as the pre-order walk
\* reaches it and is left alone by a definition without one: a part gets
\* the self-reference diagnostic exactly when its chip_name equals the name
\* so computed at its visit, and every diagnostic of the pass lies inside a
\* visited part, none coming from a chip definition itself.
DefiningNameFollowsDefinitions ==
  last.op = "pass" =>
    LET tree == Parse(last.text)
        vis == last.pass.visited
        diags == last.pass.diags
    IN /\ \A i \in NamedParts(tree, vis) :
            (\E k \in 1..Len(diags) :
               diags[k] = Diag(ChipNameRange(tree, vis, i),
                               MsgSelf(ChipNameOf(tree, last.text, vis, i))))
              <=> ChipNameOf(tree, last.text, vis, i) = NameAfter(tree, last.text, vis, i - 1)
       /\ \A k \in 1..Len(diags) :
            \E i \in 1..Len(vis) :
              /\ tree[vis[i]].kind = "part"
              /\ RangeWithin(diags[k].range, NodeRange(tree, vis[i]))

\* The pass over "CHIP F{} CHIP { PARTS: (..); F(..); }": the second
\* definition has no name, so the part F is still compared with F and gets
\* the one self-reference diagnostic of the pass.
DefinitionWithoutNameWitness ==
  /\ last.op = "pass"
  /\ last.text = SrcNoNameText
  /\ last.pass.status = "ok"
  /\ CountKind(last.pass.diags, "Cannot use chip ") = 1
  /\ \E k \in 1..Len(last.pass.diags) :
       /\ last.pass.diags[k].message = MsgSelf(NameF)
       /\ last.pass.diags[k].range.start.line = 4

\* The .hdl files directly in dir that the walk of dir reaches before its
\* first unreadable subdirectory: dir itself is readable and the file's
\* name sorts before the name of every locked directory in dir.
FoundBeforeError(dsk, drs, dir) ==
  {p \in DOMAIN dsk :
     /\ Dir(p) = dir
     /\ ExtOf(p) = ext
     /\ dir \in DOMAIN drs
     /\ drs[dir] = "ok"
     /\ \A d \in DOMAIN drs :
          (Dir(d) = dir /\ drs[d] = "locked") => StrLess(Base(p), Base(d))}

\* C20: an open event that fails in a scan still stores the opened text
\* under its URI and removes nothing from the catalog; when the built-in
\* scan succeeded every chip with a file in the built-in directory is in
\* the catalog, together with every chip whose file the failing walk of the
\* document's directory reached before the error; and a change event for
\* that document right after the failed open runs its pass and reports
\* exactly the chips that are not in that catalog.
FailedOpenIsNotRolledBack ==
  [][/\ (last'.op = "open" /\ last'.status = "error" /\ last'.passes = <<>>) =>
          /\ last'.uri \in DOMAIN openFiles'
          /\ openFiles'[last'.uri] = last'.texts[1]
          /\ implementedChips \subseteq implementedChips'
          /\ ~WalkFails(dirs, builtInChipsDir(last'.uri)) =>
               /\ \A n \in ChipNames :
                    InDir(disk, builtInChipsDir(last'.uri), n) => n \in implementedChips'
               /\ \A p \in FoundBeforeError(disk, dirs, baseDir(last'.uri)) :
                    TrimSuffix(Base(p), ext) \in implementedChips'
     /\ (/\ last.op = "open" /\ last.status = "error" /\ last.passes = <<>>
         /\ last'.op = "change" /\ last'.uri = last.uri /\ last'.texts # <<>>) =>
          /\ implementedChips' = implementedChips
          /\ Len(last'.passes) >= 1
          /\ \A k \in 1..Len(last'.passes), n \in ChipNames :
               IF n \in implementedChips
                 THEN FlagsNone(last'.passes[k].diags, n)
                 ELSE FlagsEvery(last'.texts[k], last'.passes[k].diags, n)
          /\ \A k \in 1..Len(last'.sent) :
               last'.sent[k].diagnostics = last'.passes[k].diags]_vars

\* An open of X.hdl failed on the locked subdirectory of its directory: the
\* text is stored, F of the built-in directory and X, whose file the walk
\* reached before the subdirectory, are in the catalog.
FailedOpenKeptWitness ==
  /\ last.op = "open"
  /\ last.uri = U1
  /\ last.status = "error"
  /\ last.passes = <<>>
  /\ Sub \in DOMAIN dirs
  /\ dirs[Sub] = "locked"
  /\ ~WalkFails(dirs, builtInChipsDir(U1))
  /\ HdlFile(Lib, NameF) \in DOMAIN disk
  /\ HdlFile(W1, NameX) \in DOMAIN disk
  /\ U1 \in DOMAIN openFiles
  /\ openFiles[U1] = SrcXorText
  /\ {NameF, NameX} \subseteq implementedChips

\* ------------------------------------------------------------------------
\* Open events handled concurrently, one goroutine per document.  Both maps
\* are plain Go maps written without a lock: a write is a begin step and an
\* end step, and a write or read that overlaps a write of the same map is a
\* data race, whose outcomes are a fatal "concurrent map writes" of the
\* runtime, a lost entry, or the entry stored.  last holds the goroutines:
\* phase (store, builtin, base, publish, done), todo (the names the current
\* walk has still to insert), w (inside a map write), hit (the writes in
\* flight that overlapped another), fatal (the process died), craced (a
\* catalog access overlapped a catalog write), start (the catalog before).
\* ------------------------------------------------------------------------
RECURSIVE walkSeq(_, _, _, _)
RECURSIVE walkSeqEntries(_, _, _, _, _)
\* filepath.WalkDir with the callback of collectChips: the names it inserts,
\* in the order of the walk, up to the first error.
walkSeq(dsk, drs, path, acc) ==
  IF path \in DOMAIN dsk
    THEN IF ExtOf(path) = ext
           THEN [acc EXCEPT !.names = Append(@, TrimSuffix(Base(path), ext))]
           ELSE acc
  ELSE IF path \notin DOMAIN drs THEN [acc EXCEPT !.err = TRUE]
  ELSE IF drs[path] = "locked" THEN [acc EXCEPT !.err = TRUE]
  ELSE walkSeqEntries(dsk, drs, path, SortNames(EntryNames(dsk, drs, path)), acc)

walkSeqEntries(dsk, drs, dir, names, acc) ==
  IF names = <<>> \/ acc.err THEN acc
  ELSE walkSeqEntries(dsk, drs, dir, Tail(names),
                      walkSeq(dsk, drs, dir \o <<Head(names)>>, acc))

Insertions(dsk, drs, dir) == walkSeq(dsk, drs, dir, [names |-> <<>>, err |-> FALSE]).names

ConcurrentText == SrcXorText

RaceOutcomes == {"fatal", "lost", "stored"}

ConcurrentDisks == {StartDisk, Put(StartDisk, HdlFile(W1, NameF), SrcFooText)}

InitConcurrent ==
  /\ disk \in ConcurrentDisks
  /\ dirs = StartDirs
  /\ openFiles = <<>>
  /\ opened = NoneOpened
  /\ implementedChips \in SUBSET ChipNames
  /\ last = [op |-> "serve", phase |-> [u \in Uris |-> "store"],
             todo |-> [u \in Uris |-> <<>>], w |-> [u \in Uris |-> FALSE],
             hit |-> {}, fatal |-> FALSE, craced |-> FALSE, start |-> implementedChips]

InScan(u) == last.phase[u] \in {"builtin", "base"}

\* The other goroutines inside a write of openFiles, of the catalog.
StoreWriters(u) == {v \in Uris \ {u} : last.phase[v] = "store" /\ last.w[v]}

CatalogWriters(u) == {v \in Uris \ {u} : InScan(v) /\ last.w[v]}

\* Line 352, the write enters the map.
StoreBegin(u, outcome) ==
  /\ last.op = "serve" /\ ~last.fatal
  /\ last.phase[u] = "store" /\ ~last.w[u]
  /\ (StoreWriters(u) = {}) => outcome = "stored"
  /\ last' = IF outcome = "fatal" THEN [last EXCEPT !.fatal = TRUE]
             ELSE [last EXCEPT !.w[u] = TRUE,
                               !.hit = IF StoreWriters(u) = {} THEN @
                                       ELSE @ \cup {u} \cup StoreWriters(u)]
  /\ UNCHANGED <<disk, dirs, implementedChips, openFiles, opened>>

\* Line 352, the write leaves the map; the handler goes on to line 354.
StoreEnd(u, outcome) ==
  /\ last.op = "serve" /\ ~last.fatal
  /\ last.phase[u] = "store" /\ last.w[u]
  /\ (u \notin last.hit) => outcome = "stored"
  /\ openFiles' = IF outcome = "stored" THEN Put(openFiles, u, ConcurrentText) ELSE openFiles
  /\ last' = IF outcome = "fatal" THEN [last EXCEPT !.fatal = TRUE]
             ELSE [last EXCEPT !.w[u] = FALSE, !.hit = @ \ {u}, !.phase[u] = "builtin",
                               !.todo[u] = Insertions(disk, dirs, builtInChipsDir(u))]
  /\ UNCHANGED <<disk, dirs, implementedChips, opened>>

\* Line 477, the write enters the map.
InsertBegin(u, outcome) ==
  /\ last.op = "serve" /\ ~last.fatal
  /\ InScan(u) /\ ~last.w[u] /\ last.todo[u] # <<>>
  /\ (CatalogWriters(u) = {}) => outcome = "stored"
  /\ last' = IF outcome = "fatal" THEN [last EXCEPT !.fatal = TRUE, !.craced = TRUE]
             ELSE [last EXCEPT !.w[u] = TRUE,
                               !.craced = @ \/ CatalogWriters(u) # {},
                               !.hit = IF CatalogWriters(u) = {} THEN @
                                       ELSE @ \cup {u} \cup CatalogWriters(u)]
  /\ UNCHANGED <<disk, dirs, implementedChips, openFiles, opened>>

\* Line 477, the write leaves the map.
InsertEnd(u, outcome) ==
  /\ last.op = "serve" /\ ~last.fatal
  /\ InScan(u) /\ last.w[u]
  /\ (u \notin last.hit) => outcome = "stored"
  /\ implementedChips' = IF outcome = "stored" THEN implementedChips \cup {Head(last.todo[u])}
                         ELSE implementedChips
  /\ last' = IF outcome = "fatal" THEN [last EXCEPT !.fatal = TRUE]
             ELSE [last EXCEPT !.w[u] = FALSE, !.hit = @ \ {u}, !.todo[u] = Tail(@)]
  /\ UNCHANGED <<disk, dirs, openFiles, opened>>

\* Lines 354-360: a walk has returned; the next one starts, or the pass.
ScanDone(u) ==
  /\ last.op = "serve" /\ ~last.fatal
  /\ InScan(u) /\ ~last.w[u] /\ last.todo[u] = <<>>
  /\ last' = IF last.phase[u] = "builtin"
               THEN [last EXCEPT !.phase[u] = "base",
                                 !.todo[u] = Insertions(disk, dirs, baseDir(u))]
             ELSE [last EXCEPT !.phase[u] = "publish"]
  /\ UNCHANGED <<disk, dirs, implementedChips, openFiles, opened>>

\* Lines 362-364: the pass reads the catalog while others may write it.
PublishStep(u, outcome) ==
  /\ last.op = "serve" /\ ~last.fatal
  /\ last.phase[u] = "publish"
  /\ outcome \in {"fatal", "stored"}
  /\ (CatalogWriters(u) = {}) => outcome = "stored"
  /\ last' = IF outcome = "fatal" THEN [last EXCEPT !.fatal = TRUE, !.craced = TRUE]
             ELSE [last EXCEPT !.phase[u] = "done",
                               !.craced = @ \/ CatalogWriters(u) # {}]
  /\ UNCHANGED <<disk, dirs, implementedChips, openFiles, opened>>

NextConcurrent ==
  \E u \in Uris :
    \/ \E outcome \in RaceOutcomes \ {"lost"} : StoreBegin(u, outcome)
    \/ \E outcome \in RaceOutcomes : StoreEnd(u, outcome)
    \/ \E outcome \in RaceOutcomes \ {"lost"} : InsertBegin(u, outcome)
    \/ \E outcome \in RaceOutcomes : InsertEnd(u, outcome)
    \/ ScanDone(u)
    \/ \E outcome \in RaceOutcomes : PublishStep(u, outcome)

SpecConcurrent == InitConcurrent /\ [][NextConcurrent]_vars

\* The names the scans of the open events of all documents find.
FoundByAllScans ==
  UNION {walkDir(disk, dirs, builtInChipsDir(u), [chips |-> {}, err |-> FALSE]).chips
           \cup walkDir(disk, dirs, baseDir(u), [chips |-> {}, err |-> FALSE]).chips :
         u \in Uris}

\* C19: when the opens of several documents run concurrently and no
\* catalog access overlaps a catalog insertion, the process never reaches
\* a fatal error, and once every handler is done the catalog is the union
\* of the starting catalog and the names found by all scans.
ConcurrentOpensUnion ==
  (last.op = "serve" /\ ~last.craced) =>
    /\ ~last.fatal
    /\ (\A u \in Uris : last.phase[u] = "done") =>
         implementedChips = last.start \cup FoundByAllScans

====
